---------------------------- MODULE Spec2Model ----------------------------
(***************************************************************************)
(* Model of dynamic_viz (src/src/dynamic_viz/core.py, config.py): the      *)
(* VizRequest constructor, the DynamicVizEngine dispatch and its nine      *)
(* generation rules, the session history, and the AIVizAssistant entry     *)
(* points that reach them.                                                 *)
(*                                                                         *)
(* Encoding of Python / JSON values:                                       *)
(*   None / null            the empty tuple <<>>                           *)
(*   Optional[str]          <<>> for None, <<s>> for the string s          *)
(*   a data value           Num(n) or Str(s), a tagged record              *)
(*   a data record (dict)   a function from field names to data values     *)
(*   a list object          an address into the heap `lists`               *)
(*   a document (dict)      an address into the heap `docs`                *)
(*   a mark given as a bare JSON string  [string |-> s]                    *)
(***************************************************************************)
EXTENDS Integers, Sequences, FiniteSets, TLC

VARIABLES
    lists,             \* heap of Python list objects (data lists, gauge_data)
    docs,              \* heap of specification dicts built by the rules
    generated_charts,  \* per engine, DynamicVizEngine.generated_charts
    clock,             \* the wall clock read by datetime.now()
    calls              \* log of the calls made so far, as observed on return

vars == <<lists, docs, generated_charts, clock, calls>>

-----------------------------------------------------------------------------
(* Bounds of the model *)

MaxCalls == 2
MaxRows == 2

Engines == {1, 2}

-----------------------------------------------------------------------------
(* Value encodings *)

None == <<>>
Some(s) == <<s>>
Num(n) == [t |-> "num", n |-> n, s |-> ""]
Str(s) == [t |-> "str", n |-> 0, s |-> s]

\* Python truthiness of an Optional[str]: None and "" are falsy.
Truthy(o) == o # None /\ o[1] # ""

\* Python `o or d` for an Optional[str] o and a string d.
Or(o, d) == IF Truthy(o) THEN o[1] ELSE d

\* Python `a or b or d`.
Or3(a, b, d) == IF Truthy(a) THEN a[1] ELSE Or(b, d)

\* dict.get(k, default)
DictGet(m, k, default) == IF k \in DOMAIN m THEN m[k] ELSE default

-----------------------------------------------------------------------------
(* config.py *)

BRAND == [cyan |-> "#00F5FF", magenta |-> "#E000FF", purple |-> "#7B2CFF",
          green |-> "#5BFF8A", orange |-> "#FF7A2F", bg_dark |-> "#111827",
          text |-> "#e2e8f0", text_muted |-> "#94a3b8"]

BRAND_PALETTE == <<BRAND.cyan, BRAND.magenta, BRAND.purple, BRAND.green,
                   BRAND.orange>>

-----------------------------------------------------------------------------
(* VizRequest *)

CHART_TYPES == {"bar", "line", "scatter", "pie", "heatmap", "gauge",
                "funnel", "radial", "timeline"}

\* VizRequest.__init__: `data` is the address of the caller's list object,
\* `now` the value datetime.now() returns.
\* A constructor that stores chart_type as given.
VizRequestKeepsKind(title, chart_type, data, x_field, y_field, color_field, description, insight, now) ==
    [title |-> title, chart_type |-> chart_type, data |-> data,
     x_field |-> x_field, y_field |-> y_field, color_field |-> color_field,
     description |-> description, insight |-> insight, created_at |-> now]

VizRequest(title, chart_type, data, x_field, y_field, color_field, description, insight, now) ==
    [title |-> title,
     chart_type |-> IF chart_type \in CHART_TYPES THEN chart_type ELSE "bar",
     data |-> data,
     x_field |-> x_field, y_field |-> y_field, color_field |-> color_field,
     description |-> description, insight |-> insight, created_at |-> now]

\* VizRequest.to_dict: a new dict holding the same attribute values (the data
\* list by reference).
to_dict(request) ==
    [title |-> request.title, chart_type |-> request.chart_type,
     data |-> request.data, x_field |-> request.x_field,
     y_field |-> request.y_field, color_field |-> request.color_field,
     description |-> request.description, insight |-> request.insight,
     created_at |-> request.created_at]

-----------------------------------------------------------------------------
(* DynamicVizEngine: the generation rules.  A rule takes the request and   *)
(* the heap of list objects and yields                                      *)
(*   [raised, spec, alloc]: whether the rule raised, the dict it built, and *)
(* the list objects it allocated (placed after the end of `heap`).          *)

Returned(spec) == [raised |-> FALSE, spec |-> spec, alloc |-> <<>>]

\* A base document whose canvas depends on the engine's earlier output and
\* on the request's timestamp.
_base_specStamped(request) ==
    [schema |-> "https://vega.github.io/schema/vega-lite/v5.json",
     title |-> [text |-> request.title, color |-> BRAND.text, anchor |-> "start",
                fontSize |-> 16,
                subtitle |-> IF request.insight # "" THEN Some(request.insight) ELSE None,
                subtitleColor |-> BRAND.text_muted],
     width |-> 400 + Len(docs),
     height |-> 250 + request.created_at,
     data |-> [values |-> request.data],
     config |-> [background |-> BRAND.bg_dark,
                 view |-> [stroke |-> None],
                 axis |-> [labelColor |-> BRAND.text_muted, titleColor |-> BRAND.text,
                           gridColor |-> "#374151"],
                 legend |-> [labelColor |-> BRAND.text_muted, titleColor |-> BRAND.text]]]

_base_spec(request) ==
    [schema |-> "https://vega.github.io/schema/vega-lite/v5.json",
     title |-> [text |-> request.title,
                color |-> BRAND.text,
                anchor |-> "start",
                fontSize |-> 16,
                subtitle |-> IF request.insight # "" THEN Some(request.insight) ELSE None,
                subtitleColor |-> BRAND.text_muted],
     width |-> 400,
     height |-> 250,
     data |-> [values |-> request.data],
     config |-> [background |-> BRAND.bg_dark,
                 view |-> [stroke |-> None],
                 axis |-> [labelColor |-> BRAND.text_muted,
                           titleColor |-> BRAND.text,
                           gridColor |-> "#374151"],
                 legend |-> [labelColor |-> BRAND.text_muted,
                             titleColor |-> BRAND.text]]]

\* spec[key] = value on a dict that has no such key yet: the dict extended.
With(spec, mark, encoding) ==
    [schema |-> spec.schema, title |-> spec.title, width |-> spec.width,
     height |-> spec.height, data |-> spec.data, config |-> spec.config,
     mark |-> mark, encoding |-> encoding]

_gen_bar(request, heap) ==
    Returned(With(_base_spec(request),
        [type |-> "bar", cornerRadiusEnd |-> 4],
        [x |-> [field |-> Or(request.x_field, "category"), type |-> "nominal", title |-> None],
         y |-> [field |-> Or(request.y_field, "value"), type |-> "quantitative"],
         color |-> [field |-> Or3(request.color_field, request.x_field, "category"),
                    type |-> "nominal",
                    scale |-> [range |-> BRAND_PALETTE],
                    legend |-> None],
         tooltip |-> <<[field |-> Or(request.x_field, "category")],
                       [field |-> Or(request.y_field, "value")]>>]))

_gen_line(request, heap) ==
    Returned(With(_base_spec(request),
        [type |-> "line", strokeWidth |-> 3, point |-> TRUE],
        [x |-> [field |-> Or(request.x_field, "date"), type |-> "temporal", title |-> None],
         y |-> [field |-> Or(request.y_field, "value"), type |-> "quantitative"],
         color |-> [value |-> BRAND.cyan],
         tooltip |-> <<[field |-> Or(request.x_field, "date")],
                       [field |-> Or(request.y_field, "value")]>>]))

_gen_scatter(request, heap) ==
    Returned(With(_base_spec(request),
        [type |-> "circle", size |-> 80],
        [x |-> [field |-> Or(request.x_field, "x"), type |-> "quantitative"],
         y |-> [field |-> Or(request.y_field, "y"), type |-> "quantitative"],
         color |-> [field |-> Or(request.color_field, "category"),
                    type |-> "nominal",
                    scale |-> [range |-> BRAND_PALETTE]],
         tooltip |-> <<[field |-> Or(request.x_field, "x")],
                       [field |-> Or(request.y_field, "y")]>>]))

\* A pie rule that colors by color_field instead of x_field.
_gen_pieColorField(request, heap) ==
    Returned(With(_base_spec(request),
        [type |-> "arc", innerRadius |-> 50],
        [theta |-> [field |-> Or(request.y_field, "value"), type |-> "quantitative"],
         color |-> [field |-> Or(request.color_field, "category"),
                    type |-> "nominal",
                    scale |-> [range |-> BRAND_PALETTE]],
         tooltip |-> <<[field |-> Or(request.x_field, "category")],
                       [field |-> Or(request.y_field, "value")]>>]))

_gen_pie(request, heap) ==
    Returned(With(_base_spec(request),
        [type |-> "arc", innerRadius |-> 50],
        [theta |-> [field |-> Or(request.y_field, "value"), type |-> "quantitative"],
         color |-> [field |-> Or(request.x_field, "category"),
                    type |-> "nominal",
                    scale |-> [range |-> BRAND_PALETTE]],
         tooltip |-> <<[field |-> Or(request.x_field, "category")],
                       [field |-> Or(request.y_field, "value")]>>]))

\* A gauge value that defaults to 0 instead of 50.
GaugeValueDefaultZero(request, heap) ==
    IF heap[request.data] # <<>>
    THEN DictGet(heap[request.data][1], Or(request.y_field, "value"), Num(0))
    ELSE Num(0)

\* The value the gauge shows: request.data[0].get(y_field or 'value', 50)
\* if request.data else 50.
GaugeValue(request, heap) ==
    IF heap[request.data] # <<>>
    THEN DictGet(heap[request.data][1], Or(request.y_field, "value"), Num(50))
    ELSE Num(50)

\* A gauge rule that takes the maximum from the first record's 'max' field.
_gen_gaugeReadsMax(request, heap) ==
    LET value == GaugeValue(request, heap)
        max_val == IF heap[request.data] # <<>>
                   THEN DictGet(heap[request.data][1], "max", Num(100)).n
                   ELSE 100
    IN  IF value.t # "num"
        THEN [raised |-> TRUE, spec |-> None, alloc |-> <<>>]
        ELSE LET gauge_data == <<[segment |-> Str("Value"), value |-> value],
                                 [segment |-> Str("Remaining"), value |-> Num(max_val - value.n)]>>
                 spec == With(_base_spec(request),
                     [type |-> "arc", innerRadius |-> 60, outerRadius |-> 100],
                     [theta |-> [field |-> "value", type |-> "quantitative", stack |-> TRUE],
                      color |-> [field |-> "segment",
                                 type |-> "nominal",
                                 scale |-> [domain |-> <<"Value", "Remaining">>,
                                            range |-> <<BRAND.cyan, "#1e293b">>],
                                 legend |-> None]])
             IN  [raised |-> FALSE,
                  spec |-> [spec EXCEPT !.data = [values |-> Len(heap) + 1],
                                        !.width = 200, !.height = 200],
                  alloc |-> <<gauge_data>>]

_gen_gauge(request, heap) ==
    LET value == GaugeValue(request, heap)
        max_val == 100
    IN  IF value.t # "num"
        THEN \* max_val - value: int minus str raises TypeError
             [raised |-> TRUE, spec |-> None, alloc |-> <<>>]
        ELSE LET gauge_data == <<[segment |-> Str("Value"), value |-> value],
                                 [segment |-> Str("Remaining"), value |-> Num(max_val - value.n)]>>
                 spec == With(_base_spec(request),
                     [type |-> "arc", innerRadius |-> 60, outerRadius |-> 100],
                     [theta |-> [field |-> "value", type |-> "quantitative", stack |-> TRUE],
                      color |-> [field |-> "segment",
                                 type |-> "nominal",
                                 scale |-> [domain |-> <<"Value", "Remaining">>,
                                            range |-> <<BRAND.cyan, "#1e293b">>],
                                 legend |-> None]])
             IN  [raised |-> FALSE,
                  spec |-> [spec EXCEPT !.data = [values |-> Len(heap) + 1],
                                        !.width = 200, !.height = 200],
                  alloc |-> <<gauge_data>>]

_gen_funnel(request, heap) ==
    Returned(With(_base_spec(request),
        [type |-> "bar", cornerRadiusEnd |-> 4],
        [y |-> [field |-> Or(request.x_field, "stage"), type |-> "ordinal", sort |-> None, title |-> None],
         x |-> [field |-> Or(request.y_field, "value"), type |-> "quantitative"],
         color |-> [field |-> Or(request.x_field, "stage"),
                    type |-> "nominal",
                    scale |-> [range |-> BRAND_PALETTE],
                    legend |-> None]]))

_gen_heatmap(request, heap) ==
    Returned(With(_base_spec(request),
        [string |-> "rect"],
        [x |-> [field |-> Or(request.x_field, "x"), type |-> "ordinal"],
         y |-> [field |-> Or(request.y_field, "y"), type |-> "ordinal"],
         color |-> [field |-> Or(request.color_field, "value"),
                    type |-> "quantitative",
                    scale |-> [range |-> <<BRAND.purple, BRAND.cyan>>]]]))

_gen_radial(request, heap) ==
    Returned(With(_base_spec(request),
        [type |-> "arc", innerRadius |-> 30],
        [theta |-> [field |-> Or(request.y_field, "value"), type |-> "quantitative", stack |-> TRUE],
         color |-> [field |-> Or(request.x_field, "category"),
                    type |-> "nominal",
                    scale |-> [range |-> BRAND_PALETTE]]]))

_gen_timeline(request, heap) ==
    LET r == Returned(With(_base_spec(request),
                [type |-> "circle", size |-> 100],
                [x |-> [field |-> Or(request.x_field, "date"), type |-> "temporal"],
                 y |-> [value |-> 0],
                 color |-> [field |-> Or(request.color_field, "category"),
                            type |-> "nominal",
                            scale |-> [range |-> BRAND_PALETTE]],
                 tooltip |-> <<[field |-> Or(request.x_field, "date")],
                               [field |-> "event", type |-> "nominal"]>>]))
    IN  [r EXCEPT !.spec.height = 80]

-----------------------------------------------------------------------------
(* DynamicVizEngine.generate *)

\* A table that routes radial to the pie rule.
generatorsRadialAsPie ==
    [bar |-> "_gen_bar", line |-> "_gen_line", scatter |-> "_gen_scatter",
     pie |-> "_gen_pie", gauge |-> "_gen_gauge", funnel |-> "_gen_funnel",
     heatmap |-> "_gen_heatmap", radial |-> "_gen_pie",
     timeline |-> "_gen_timeline"]

\* The dispatch table of generate, by the name of the rule.
generators ==
    [bar |-> "_gen_bar", line |-> "_gen_line", scatter |-> "_gen_scatter",
     pie |-> "_gen_pie", gauge |-> "_gen_gauge", funnel |-> "_gen_funnel",
     heatmap |-> "_gen_heatmap", radial |-> "_gen_radial",
     timeline |-> "_gen_timeline"]

\* generators.get(request.chart_type, self._gen_bar)
Lookup(chart_type) == DictGet(generators, chart_type, "_gen_bar")

\* generator(request)
Apply(generator, request, heap) ==
    CASE generator = "_gen_bar" -> _gen_bar(request, heap)
      [] generator = "_gen_line" -> _gen_line(request, heap)
      [] generator = "_gen_scatter" -> _gen_scatter(request, heap)
      [] generator = "_gen_pie" -> _gen_pie(request, heap)
      [] generator = "_gen_gauge" -> _gen_gauge(request, heap)
      [] generator = "_gen_funnel" -> _gen_funnel(request, heap)
      [] generator = "_gen_heatmap" -> _gen_heatmap(request, heap)
      [] generator = "_gen_radial" -> _gen_radial(request, heap)
      [] generator = "_gen_timeline" -> _gen_timeline(request, heap)

\* What a caller sees when it follows the references of a dict.
DocValue(spec, heap) == [spec EXCEPT !.data = [values |-> heap[spec.data.values]]]
RequestValue(request, heap) == [request EXCEPT !.data = heap[request.data]]
RecordValue(entry, heap, dheap) ==
    [request |-> RequestValue(entry.request, heap),
     spec |-> DocValue(dheap[entry.spec], heap)]

\* The record generate appends to the history.
HistoryEntry(request, spec) == [request |-> to_dict(request), spec |-> spec]

\* self.generated_charts.append(entry) on engine e
AppendChart(e, entry) ==
    [generated_charts EXCEPT ![e] = Append(@, entry)]

\* generate(request) on engine e, for a request whose data list is already in
\* `heap`.  op and args say which entry point was called and with what.
generate(e, request, heap, op, args) ==
    LET generator == Lookup(request.chart_type)
        r == Apply(generator, request, heap)
        heap2 == heap \o r.alloc
        ret == Len(docs) + 1
        entry == HistoryEntry(request, ret)
        call == [op |-> op, engine |-> e, args |-> args, request |-> request,
                 reqv |-> RequestValue(request, heap),
                 rule |-> generator,
                 fallback |-> request.chart_type \notin DOMAIN generators,
                 raised |-> r.raised]
    IN  IF r.raised
        THEN /\ lists' = heap
             /\ calls' = Append(calls, [call |-> call, ret |-> 0, at |-> 0, doc |-> None, record |-> None])
             /\ UNCHANGED <<docs, generated_charts>>
        ELSE /\ lists' = heap2
             /\ docs' = Append(docs, r.spec)
             /\ generated_charts' = AppendChart(e, entry)
             /\ calls' = Append(calls,
                    [call |-> call, ret |-> ret,
                     at |-> Len(generated_charts[e]) + 1,
                     doc |-> DocValue(r.spec, heap2),
                     record |-> RecordValue(entry, heap2, Append(docs, r.spec))])

\* The caller builds VizRequest(...) at time `now` and calls engine.generate.
Generate(e, a, now) ==
    /\ clock' = now
    /\ generate(e,
                VizRequest(a.title, a.chart_type, Len(lists) + 1, a.x_field, a.y_field, a.color_field, a.description, a.insight, now),
                Append(lists, a.data), "generate", a)

\* A generate_from_dict that does not pass the insight on.
GenerateFromDictDropsInsight(e, req_dict, now) ==
    /\ clock' = now
    /\ generate(e,
                VizRequest(DictGet(req_dict, "title", "Chart"),
                           DictGet(req_dict, "chart_type", "bar"),
                           Len(lists) + 1,
                           DictGet(req_dict, "x_field", None),
                           DictGet(req_dict, "y_field", None),
                           DictGet(req_dict, "color_field", None),
                           DictGet(req_dict, "description", ""),
                           "",
                           now),
                Append(lists, DictGet(req_dict, "data", <<>>)),
                "generate_from_dict", req_dict)

\* DynamicVizEngine.generate_from_dict(req_dict)
GenerateFromDict(e, req_dict, now) ==
    /\ clock' = now
    /\ generate(e,
                VizRequest(DictGet(req_dict, "title", "Chart"),
                           DictGet(req_dict, "chart_type", "bar"),
                           Len(lists) + 1,
                           DictGet(req_dict, "x_field", None),
                           DictGet(req_dict, "y_field", None),
                           DictGet(req_dict, "color_field", None),
                           DictGet(req_dict, "description", ""),
                           DictGet(req_dict, "insight", ""),
                           now),
                Append(lists, DictGet(req_dict, "data", <<>>)),
                "generate_from_dict", req_dict)

\* AIVizAssistant.visualize_metric(title, value, max_value, insight)
VisualizeMetric(e, a, now) ==
    LET data == <<[value |-> Num(a.value), max |-> Num(a.max_value)]>>
    IN  /\ clock' = now
        /\ generate(e,
                    VizRequest(a.title, "gauge", Len(lists) + 1, None, Some("value"), None, "", a.insight, now),
                    Append(lists, data), "visualize_metric", a)

-----------------------------------------------------------------------------
(* Inputs *)

Records ==
    {[value |-> Num(85)], [value |-> Str("high")],
     [amount |-> Num(120), value |-> Num(30)], [category |-> Str("A")]}

DataLists == UNION {[1..n -> Records] : n \in 0..MaxRows}

UnknownKinds == {"donut", ""}

\* Every typed request of the single-call specification.
AllArgs ==
    [title : {"Sales"}, chart_type : CHART_TYPES \cup UnknownKinds,
     data : DataLists,
     x_field : {None, Some(""), Some("region")},
     y_field : {None, Some(""), Some("amount")},
     color_field : {None, Some(""), Some("team")},
     description : {"", "about"}, insight : {"", "note"}]

\* A mapping with key k bound to o[1], or without the key when o is None.
OptKey(k, o) == IF o = None THEN <<>> ELSE (k :> o[1])

AllDicts ==
    {OptKey("title", t) @@ OptKey("chart_type", c) @@ OptKey("chartKind", k)
       @@ OptKey("data", d) @@ OptKey("x_field", x) @@ OptKey("y_field", y)
       @@ OptKey("color_field", cf) @@ OptKey("description", ds)
       @@ OptKey("insight", i) :
       t \in {None, Some("Sales")},
       c \in {None, Some("pie"), Some("gauge"), Some("donut")},
       k \in {None, Some("line")},
       d \in {None, Some(<<>>), Some(<<[value |-> Num(85)]>>), Some(<<[value |-> Str("high")]>>)},
       x \in {None, Some(None), Some(Some("region"))},
       y \in {None, Some(Some("amount"))},
       cf \in {None, Some(Some("team"))},
       ds \in {None, Some("about")},
       i \in {None, Some("note")}}

AllMetrics ==
    [title : {"Score"}, value : {0, 85, 120}, max_value : {100, 200},
     insight : {"", "note"}]

\* The requests of a session of several calls.
SessionArgs ==
    {a \in AllArgs :
        /\ a.x_field = None /\ a.y_field = None /\ a.color_field = None
        /\ a.description = "" /\ a.insight = ""
        /\ \/ a.chart_type \in {"bar", "pie", "donut"} /\ a.data = <<>>
           \/ a.chart_type \in {"bar", "gauge"} /\ a.data = <<[value |-> Num(85)]>>
           \/ a.chart_type = "gauge" /\ a.data \in {<<>>, <<[value |-> Str("high")]>>}}

SessionDicts ==
    {d \in AllDicts :
        \/ DOMAIN d = {}
        \/ DOMAIN d = {"chart_type", "data"} /\ d["chart_type"] = "gauge" /\ d["data"] # <<>>}

SessionMetrics == {m \in AllMetrics : m.value = 85 /\ m.max_value = 200 /\ m.insight = ""}

\* datetime.now(): the clock has not gone back since the last reading.
Now == {clock, clock + 1}

-----------------------------------------------------------------------------
(* Specifications *)

Init ==
    /\ lists = <<>>
    /\ docs = <<>>
    /\ generated_charts = [e \in Engines |-> <<>>]
    /\ clock = 0
    /\ calls = <<>>

\* A session: up to MaxCalls calls on two engines.
SessionGenerate ==
    /\ Len(calls) < MaxCalls
    /\ \E e \in Engines, a \in SessionArgs, now \in Now : Generate(e, a, now)

SessionGenerateFromDict ==
    /\ Len(calls) < MaxCalls
    /\ \E e \in Engines, d \in SessionDicts, now \in Now : GenerateFromDict(e, d, now)

SessionVisualizeMetric ==
    /\ Len(calls) < MaxCalls
    /\ \E e \in Engines, m \in SessionMetrics, now \in Now : VisualizeMetric(e, m, now)

Next == SessionGenerate \/ SessionGenerateFromDict \/ SessionVisualizeMetric

Spec == Init /\ [][Next]_vars

\* One call on a fresh engine, over every input.
OneGenerate ==
    /\ calls = <<>>
    /\ \E a \in AllArgs, now \in Now : Generate(1, a, now)

OneGenerateFromDict ==
    /\ calls = <<>>
    /\ \E d \in AllDicts, now \in Now : GenerateFromDict(1, d, now)

OneVisualizeMetric ==
    /\ calls = <<>>
    /\ \E m \in AllMetrics, now \in Now : VisualizeMetric(1, m, now)

NextOne == OneGenerate \/ OneGenerateFromDict \/ OneVisualizeMetric

SpecOne == Init /\ [][NextOne]_vars

-----------------------------------------------------------------------------
(* The caller's side of the references generate and get_chart_history hand *)
(* out: the returned spec is the dict the history holds, its data.values   *)
(* and the stored request's data are the caller's own list, and            *)
(* get_chart_history returns engine.generated_charts itself.               *)

\* spec["width"] = 0 on a document generate returned
CallerSetsWidth ==
    \E d \in 1..Len(docs) :
        /\ docs' = [docs EXCEPT ![d].width = 0]
        /\ UNCHANGED <<lists, generated_charts, clock, calls>>

\* data.clear() on a list the caller passed in a request (or reached through
\* spec["data"]["values"])
CallerClearsData ==
    \E l \in 1..Len(lists) :
        /\ lists' = [lists EXCEPT ![l] = <<>>]
        /\ UNCHANGED <<docs, generated_charts, clock, calls>>

\* assistant.get_chart_history().pop()
CallerPopsHistory ==
    \E e \in Engines :
        /\ generated_charts[e] # <<>>
        /\ generated_charts' = [generated_charts EXCEPT ![e] = SubSeq(@, 1, Len(@) - 1)]
        /\ UNCHANGED <<lists, docs, clock, calls>>

NextCaller == Next \/ CallerSetsWidth \/ CallerClearsData \/ CallerPopsHistory

SpecCaller == Init /\ [][NextCaller]_vars

-----------------------------------------------------------------------------
(* Properties *)

Calls == 1..Len(calls)

\* The calls made on engine e, in call order.
CallsOn(e) == SelectSeq(calls, LAMBDA c : c.call.engine = e)

\* The history of engine e as a caller reads it through get_chart_history.
HistoryValue(e) ==
    [k \in 1..Len(generated_charts[e]) |->
        RecordValue(generated_charts[e][k], lists, docs)]

\* The chart_type and the data a call was given.
InputKind(c) ==
    CASE c.call.op = "generate" -> c.call.args.chart_type
      [] c.call.op = "generate_from_dict" -> DictGet(c.call.args, "chart_type", "bar")
      [] c.call.op = "visualize_metric" -> "gauge"

InputData(c) == c.call.reqv.data

Erased(request) == [request EXCEPT !.created_at = 0]

\* C1: after N calls on an engine its history has exactly N entries, and
\* entry i is the request and the document of the i-th call.
C1_HistoryHoldsEveryCall ==
    \A e \in Engines :
        /\ Len(generated_charts[e]) = Len(CallsOn(e))
        /\ \A k \in 1..Len(generated_charts[e]) :
              HistoryValue(e)[k] = CallsOn(e)[k].record

\* C2: the constructed request's kind is one of the nine; an input kind
\* outside the nine becomes 'bar', its document carries the bar rule's mark
\* and the history record says 'bar'.
C2_KindCoercedToBar ==
    \A i \in Calls :
        LET c == calls[i] IN
        /\ c.call.request.chart_type \in CHART_TYPES
        /\ Cardinality(CHART_TYPES) = 9
        /\ InputKind(c) \notin CHART_TYPES =>
              /\ c.call.request.chart_type = "bar"
              /\ ~c.call.raised
              /\ c.doc.mark = [type |-> "bar", cornerRadiusEnd |-> 4]
              /\ c.record.request.chart_type = "bar"
              /\ generated_charts[c.call.engine][c.at].request.chart_type = "bar"

C2_Witness ==
    \E i \in Calls :
        /\ calls[i].call.op = "generate"
        /\ calls[i].call.args.chart_type = "donut"
        /\ ~calls[i].call.raised
        /\ calls[i].doc.mark.type = "bar"

\* C3 as stated: with data = [] generate returns, for each of the nine
\* kinds, a document whose data.values is empty.
C3_EmptyDataGivesEmptyValues ==
    \A i \in Calls :
        InputData(calls[i]) = <<>> =>
            /\ ~calls[i].call.raised
            /\ calls[i].doc.data.values = <<>>

\* C3 amended: with data = [] generate returns without error; data.values
\* is empty for the eight kinds other than gauge, and for gauge it is the
\* two synthetic rows Value 50 / Remaining 50.
C3_EmptyDataAmended ==
    \A i \in Calls :
        InputData(calls[i]) = <<>> =>
            /\ ~calls[i].call.raised
            /\ calls[i].doc.data.values =
                  IF calls[i].call.request.chart_type = "gauge"
                  THEN <<[segment |-> Str("Value"), value |-> Num(50)],
                         [segment |-> Str("Remaining"), value |-> Num(50)]>>
                  ELSE <<>>

C3_Witness ==
    \E i \in Calls :
        /\ InputData(calls[i]) = <<>>
        /\ calls[i].call.request.chart_type = "gauge"
        /\ ~calls[i].call.raised
        /\ Len(calls[i].doc.data.values) = 2

\* C4: generate never raises to the caller and every call appends exactly
\* one record to the history.
C4_GenerateTotalAndRecords ==
    /\ \A i \in Calls : ~calls[i].call.raised
    /\ \A e \in Engines : Len(generated_charts[e]) = Len(CallsOn(e))

\* C5: whatever happens later, the history of each engine still reads as the
\* records appended by its calls, in call order and unchanged.
C5_RecordsNeverChange ==
    \A e \in Engines :
        LET done == SelectSeq(CallsOn(e), LAMBDA c : ~c.call.raised) IN
        /\ Len(generated_charts[e]) = Len(done)
        /\ \A k \in 1..Len(done) : HistoryValue(e)[k] = done[k].record

\* The value field a gauge request names: y_field, else 'value'.
GaugeField(request) ==
    IF request.y_field # None /\ request.y_field # Some("") THEN request.y_field[1] ELSE "value"

\* C6: a gauge document's data.values is the two rows Value v / Remaining
\* 100 - v, v being the value field of the first record only, 50 when the
\* data is empty or the first record lacks the field; later records and a
\* 'max' field change nothing.
C6_GaugeRows ==
    \A i \in Calls :
        LET c == calls[i]
            data == InputData(c)
            f == GaugeField(c.call.reqv)
            known == data # <<>> /\ f \in DOMAIN data[1]
        IN  c.call.request.chart_type = "gauge" /\ (known => data[1][f].t = "num") =>
              LET v == IF known THEN data[1][f].n ELSE 50 IN
              /\ ~c.call.raised
              /\ c.doc.data.values =
                    <<[segment |-> Str("Value"), value |-> Num(v)],
                      [segment |-> Str("Remaining"), value |-> Num(100 - v)]>>

\* A gauge over several records, the first one holding the value.
C6_Witness ==
    \E i \in Calls :
        /\ calls[i].call.request.chart_type = "gauge"
        /\ Len(InputData(calls[i])) > 1
        /\ ~calls[i].call.raised
        /\ calls[i].doc.data.values[1].value = Num(85)
        /\ calls[i].doc.data.values[2].value = Num(15)

\* The same with a 'max' field in the record, from visualize_metric.
C6_WitnessMax ==
    \E i \in Calls :
        /\ calls[i].call.op = "visualize_metric"
        /\ calls[i].call.args.max_value = 200
        /\ calls[i].doc.data.values[2].value = Num(15)

\* Whether the request supplies the optional field name o: any string
\* counts when anyString, only a non-empty one otherwise.
Given(o, anyString) == IF anyString THEN o # None ELSE o # None /\ o # Some("")

\* The field each channel of the table is bound to.
TableFields(request, anyString) ==
    LET Given_(o) == Given(o, anyString)
        X(d) == IF Given_(request.x_field) THEN request.x_field[1] ELSE d
        Y(d) == IF Given_(request.y_field) THEN request.y_field[1] ELSE d
        C(d) == IF Given_(request.color_field) THEN request.color_field[1] ELSE d
        k == request.chart_type
    IN  CASE k = "bar" -> [x |-> X("category"), y |-> Y("value"), color |-> C(X("category"))]
          [] k = "line" -> [x |-> X("date"), y |-> Y("value")]
          [] k = "scatter" -> [x |-> X("x"), y |-> Y("y"), color |-> C("category")]
          [] k = "pie" -> [theta |-> Y("value"), color |-> X("category")]
          [] k = "funnel" -> [y |-> X("stage"), x |-> Y("value"), color |-> X("stage")]
          [] k = "heatmap" -> [x |-> X("x"), y |-> Y("y"), color |-> C("value")]
          [] k = "radial" -> [theta |-> Y("value"), color |-> X("category")]
          [] k = "timeline" -> [x |-> X("date"), color |-> C("category")]

\* The fields the channels of a document are bound to.
DocFields(doc, k) ==
    LET en == doc.encoding IN
    CASE k = "bar" -> [x |-> en.x.field, y |-> en.y.field, color |-> en.color.field]
      [] k = "line" -> [x |-> en.x.field, y |-> en.y.field]
      [] k = "scatter" -> [x |-> en.x.field, y |-> en.y.field, color |-> en.color.field]
      [] k = "pie" -> [theta |-> en.theta.field, color |-> en.color.field]
      [] k = "funnel" -> [y |-> en.y.field, x |-> en.x.field, color |-> en.color.field]
      [] k = "heatmap" -> [x |-> en.x.field, y |-> en.y.field, color |-> en.color.field]
      [] k = "radial" -> [theta |-> en.theta.field, color |-> en.color.field]
      [] k = "timeline" -> [x |-> en.x.field, color |-> en.color.field]

FieldsResolved(anyString) ==
    \A i \in Calls :
        LET c == calls[i] IN
        c.call.request.chart_type # "gauge" =>
            /\ ~c.call.raised
            /\ DocFields(c.doc, c.call.request.chart_type) = TableFields(c.call.request, anyString)

\* C7 as stated: each channel is bound to the caller-supplied field name
\* whenever the request gives one (any string), else to the kind's default.
C7_SuppliedFieldAlwaysWins == FieldsResolved(TRUE)

\* C7 amended: each channel is bound to the caller-supplied field name when
\* the request gives a non-empty one, else (None or "") to the kind's default.
C7_NonEmptyFieldWins == FieldsResolved(FALSE)

\* A pie whose x_field and y_field are supplied and color_field is not.
C7_Witness ==
    \E i \in Calls :
        /\ calls[i].call.request.chart_type = "pie"
        /\ calls[i].call.request.x_field = Some("region")
        /\ calls[i].call.request.y_field = None
        /\ ~calls[i].call.raised
        /\ calls[i].doc.encoding.color.field = "region"
        /\ calls[i].doc.encoding.theta.field = "value"

\* C8: two calls with equal requests, on whichever engines and after
\* whatever history, end alike: the same document, and history records that
\* differ in the request's created_at at most.
C8_EqualRequestsEqualDocuments ==
    \A i \in Calls : \A j \in Calls :
        Erased(calls[i].call.reqv) = Erased(calls[j].call.reqv) =>
            /\ calls[i].call.raised = calls[j].call.raised
            /\ calls[i].doc = calls[j].doc
            /\ ~calls[i].call.raised =>
                  /\ calls[i].record.spec = calls[j].record.spec
                  /\ Erased(calls[i].record.request) = Erased(calls[j].record.request)

\* Two equal requests made at different times, the second on an engine whose
\* history is not empty.
C8_Witness ==
    \E i \in Calls : \E j \in Calls :
        /\ i < j
        /\ Erased(calls[i].call.reqv) = Erased(calls[j].call.reqv)
        /\ calls[i].call.request.created_at # calls[j].call.request.created_at
        /\ calls[i].call.engine = calls[j].call.engine
        /\ ~calls[j].call.raised
        /\ calls[j].ret # calls[i].ret

\* The rule, the mark and the channel types of the table, per kind.
TableRule(k) ==
    CASE k = "bar" -> "_gen_bar" [] k = "line" -> "_gen_line"
      [] k = "scatter" -> "_gen_scatter" [] k = "pie" -> "_gen_pie"
      [] k = "gauge" -> "_gen_gauge" [] k = "funnel" -> "_gen_funnel"
      [] k = "heatmap" -> "_gen_heatmap" [] k = "radial" -> "_gen_radial"
      [] k = "timeline" -> "_gen_timeline"

TableShape(doc, k) ==
    LET m == doc.mark
        en == doc.encoding
    IN  CASE k = "bar" -> m.type = "bar" /\ en.x.type = "nominal" /\ en.y.type = "quantitative"
          [] k = "line" -> m.type = "line" /\ m.point /\ en.x.type = "temporal"
          [] k = "scatter" -> m.type = "circle" /\ en.x.type = "quantitative" /\ en.y.type = "quantitative"
          [] k = "pie" -> m.type = "arc" /\ m.innerRadius = 50 /\ en.theta.type = "quantitative"
          [] k = "gauge" -> m.type = "arc" /\ en.theta.stack
          [] k = "funnel" -> m.type = "bar" /\ en.y.type = "ordinal" /\ en.y.sort = None
                             /\ en.x.type = "quantitative"
          [] k = "heatmap" -> m = [string |-> "rect"] /\ en.x.type = "ordinal"
                              /\ en.y.type = "ordinal" /\ en.color.type = "quantitative"
          [] k = "radial" -> m.type = "arc" /\ m.innerRadius # 50 /\ en.theta.stack
          [] k = "timeline" -> m.type = "circle" /\ en.x.type = "temporal" /\ en.y = [value |-> 0]

\* C9: every kind has its own rule, the lookup never falls back to the bar
\* rule, and the document has the mark and the channel types of its kind.
C9_DispatchMatchesTable ==
    /\ DOMAIN generators = CHART_TYPES
    /\ \A k1 \in CHART_TYPES : \A k2 \in CHART_TYPES :
          generators[k1] = generators[k2] => k1 = k2
    /\ \A i \in Calls :
          LET c == calls[i] IN
          /\ ~c.call.fallback
          /\ c.call.rule = TableRule(c.call.request.chart_type)
          /\ ~c.call.raised => TableShape(c.doc, c.call.request.chart_type)

C9_Witness ==
    \E i \in Calls :
        /\ calls[i].call.request.chart_type = "timeline"
        /\ calls[i].call.rule = "_gen_timeline"
        /\ ~calls[i].call.raised
        /\ calls[i].doc.mark.type = "circle"

\* The typed request a mapping stands for: missing keys take the fixed
\* fallbacks, the kind being read from the keys named by `kind`.
Filled(m, kind) ==
    [title |-> DictGet(m, "title", "Chart"),
     chart_type |-> kind,
     data |-> DictGet(m, "data", <<>>),
     x_field |-> DictGet(m, "x_field", None),
     y_field |-> DictGet(m, "y_field", None),
     color_field |-> DictGet(m, "color_field", None),
     description |-> DictGet(m, "description", ""),
     insight |-> DictGet(m, "insight", "")]

\* What generate does with typed arguments a, built at time `now`: whether
\* it raises, the document it returns and the record it appends.
TypedOutcome(a, now) ==
    LET heap == <<a.data>>
        request == VizRequest(a.title, a.chart_type, 1, a.x_field, a.y_field, a.color_field, a.description, a.insight, now)
        r == Apply(Lookup(request.chart_type), request, heap)
        doc == DocValue(r.spec, heap \o r.alloc)
    IN  IF r.raised
        THEN [raised |-> TRUE, doc |-> None, record |-> None]
        ELSE [raised |-> FALSE, doc |-> doc,
              record |-> [request |-> RequestValue(to_dict(request), heap), spec |-> doc]]

SameAsTyped(c, kind) ==
    LET out == TypedOutcome(Filled(c.call.args, kind), c.call.request.created_at) IN
    /\ c.call.raised = out.raised
    /\ c.doc = out.doc
    /\ c.record = out.record
    /\ ~c.call.raised =>
          generated_charts[c.call.engine][c.at].spec = c.ret

\* C10 as stated: generate_from_dict reads the kind from `chart_type` or
\* from `chartKind` and then behaves as generate on the filled typed request.
C10_KindUnderEitherKey ==
    \A i \in Calls :
        calls[i].call.op = "generate_from_dict" =>
            SameAsTyped(calls[i],
                DictGet(calls[i].call.args, "chart_type",
                    DictGet(calls[i].call.args, "chartKind", "bar")))

\* C10 amended: generate_from_dict reads the kind from `chart_type` only (a
\* `chartKind` key is ignored) and then behaves as generate on the filled
\* typed request.
C10_KindUnderChartType ==
    \A i \in Calls :
        calls[i].call.op = "generate_from_dict" =>
            SameAsTyped(calls[i], DictGet(calls[i].call.args, "chart_type", "bar"))

\* The empty mapping: every fallback applies.
C10_Witness ==
    \E i \in Calls :
        /\ calls[i].call.op = "generate_from_dict"
        /\ DOMAIN calls[i].call.args = {}
        /\ ~calls[i].call.raised
        /\ calls[i].doc.title.text = "Chart"
        /\ calls[i].doc.mark.type = "bar"
        /\ calls[i].doc.data.values = <<>>

=============================================================================
